---- MODULE Spec2Model ----
(***************************************************************************)
(* The matrix REST API of ontask (src/src/matrix/api.py): MatrixOps        *)
(* (get/post/put/delete of the table attached to a workflow) and           *)
(* MatrixMerge (get/put: merge an uploaded table into the stored one).     *)
(* One workflow pk is modelled.  Tables are column-oriented, as on the     *)
(* wire: a list of column names and, per column, a list of values.         *)
(***************************************************************************)
EXTENDS Integers, Sequences, FiniteSets, TLC

VARIABLES
    stored,    \* the tables attached to the workflow: {} (load_from_db gives None) or {t}
    locked,    \* what workflow.ops.is_locked(workflow) answers to an API request
    last,      \* the request just handled and its response; [op |-> "idle"] between requests
    reqs       \* requests being handled step by step (the concurrent specification only)

vars == <<stored, locked, last, reqs>>

(* ------------------------------ bounds -------------------------------- *)

MaxRows == 2

Names == {"a", "a_1"}
Values == {"x", "2017-11-04"}
NaN == "NaN"

Users == {"owner", "admin", "other"}
Superusers == {"admin"}
Owner == "owner"

Hows == {"left", "right", "outer", "inner", ""}
DupColumns == {"override", "rename", ""}

(* ------------------------------ tables -------------------------------- *)

Range(s) == {s[i] : i \in DOMAIN s}

IsDistinct(s) == \A i, j \in DOMAIN s : s[i] = s[j] => i = j

\* Column names are unique within a table.
ColLists ==
    {cs \in UNION {[1..n -> Names] : n \in 0..Cardinality(Names)} : IsDistinct(cs)}

TablesOver(cs) ==
    UNION {{[cols |-> cs, vals |-> vs] : vs \in [1..Len(cs) -> [1..n -> Values]]}
           : n \in 0..MaxRows}

Tables == UNION {TablesOver(cs) : cs \in ColLists}

\* A wire payload whose lists differ in length: pd.DataFrame raises on it.
Ragged == [cols |-> <<"a", "a_1">>, vals |-> <<<<"x">>, <<>>>>]

Payloads == Tables \cup {Ragged}

EmptyTable == [cols |-> <<>>, vals |-> <<>>]

NRows(t) == IF Len(t.cols) = 0 THEN 0 ELSE Len(t.vals[1])

ColIndex(t, c) == CHOOSE i \in 1..Len(t.cols) : t.cols[i] = c

Column(t, c) == t.vals[ColIndex(t, c)]

\* pd.DataFrame(data): fails unless every list has the same length.
DataFrameOk(p) == \A i, j \in 1..Len(p.cols) : Len(p.vals[i]) = Len(p.vals[j])

IsDateLike(v) == v = "2017-11-04"

ToTimestamp(v) == "ts:" \o v

\* ops.detect_datetime_columns: a non-empty column of date-like strings
\* becomes a timestamp column.
DetectDatetimeColumns(t) ==
    [cols |-> t.cols,
     vals |-> [i \in 1..Len(t.cols) |->
                 IF Len(t.vals[i]) > 0 /\ \A k \in 1..Len(t.vals[i]) : IsDateLike(t.vals[i][k])
                 THEN [k \in 1..Len(t.vals[i]) |-> ToTimestamp(t.vals[i][k])]
                 ELSE t.vals[i]]]

\* ops.is_unique_column: as many distinct values as rows (two nulls are a duplicate).
IsUniqueColumn(col) == Cardinality(Range(col)) = Len(col)

(* ----------------------------- get_object ----------------------------- *)

\* Workflow.objects.get(pk=pk) for a superuser, get(pk=pk, user=user) otherwise.
OwnershipOk(user) == user \in Superusers \/ user = Owner

GetObject(user, lk) ==
    IF ~OwnershipOk(user) THEN "IncorrectObject"
    ELSE IF lk THEN "WorkflowLocked"
    ELSE "ok"

(* ------------------------------ MatrixOps ------------------------------ *)

NoPlan == [override |-> {}, renamed |-> FALSE, autorename |-> <<>>]

\* What a handler did: its response, the table store afterwards, whether it
\* called the store's write/detach, whether it called the merge engine, and
\* the reconciliation plan it built (planned = validation passed).
Outcome(result, store, wrote) ==
    [result |-> result, store |-> store, wrote |-> wrote,
     engine |-> FALSE, planned |-> FALSE, plan |-> NoPlan]

\* MatrixOps.override: permission check, serializer, DataFrame, detect, store.
Override(user, req, st, lk) ==
    LET go == GetObject(user, lk) IN
    IF go # "ok" THEN Outcome(go, st, FALSE)
    ELSE IF ~req.valid THEN Outcome("BadRequest", st, FALSE)
    ELSE IF ~DataFrameOk(req.data) THEN Outcome("Http404", st, FALSE)
    ELSE Outcome("Created", {DetectDatetimeColumns(req.data)}, TRUE)

\* MatrixOps.get
MatrixGet(user, st, lk) ==
    LET go == GetObject(user, lk) IN
    IF go # "ok" THEN Outcome(go, st, FALSE) ELSE Outcome("OK", st, FALSE)

\* MatrixOps.post without the lookup of line 85.
MatrixPostNoLookup(user, req, st, lk) == Override(user, req, st, lk)

\* MatrixOps.post: the stored table is looked up before anything else.
MatrixPost(user, req, st, lk) ==
    IF st # {} THEN Outcome("AlreadyExists", st, FALSE)
    ELSE Override(user, req, st, lk)

\* MatrixOps.put
MatrixPut(user, req, st, lk) == Override(user, req, st, lk)

\* MatrixOps.delete: detach_dataframe flushes the table, the workflow stays.
MatrixDelete(user, st, lk) ==
    LET go == GetObject(user, lk) IN
    IF go # "ok" THEN Outcome(go, st, FALSE) ELSE Outcome("NoContent", {}, TRUE)

(* ----------------------------- MatrixMerge ----------------------------- *)

\* MatrixMerge.get
MergeGet(user, st, lk) ==
    LET go == GetObject(user, lk) IN
    IF go # "ok" THEN Outcome(go, st, FALSE) ELSE Outcome("OK", st, FALSE)

\* colname + '_{0}'.format(i)
Suffixed(colname, i) == colname \o "_" \o ToString(i)

\* The while loop of lines 206-211: the first i >= 1 whose suffixed name is
\* not a column of the destination.
RECURSIVE NewName(_, _, _)
NewName(colname, dstCols, i) ==
    IF Suffixed(colname, i) \notin Range(dstCols)
    THEN Suffixed(colname, i)
    ELSE NewName(colname, dstCols, i + 1)

\* The for loop of lines 194-212 from source column k on, acc being
\* autorename_column_names so far.
RECURSIVE AutorenameColumnNames(_, _, _, _, _)
AutorenameColumnNames(srcCols, dstCols, right_on, k, acc) ==
    IF k > Len(srcCols) THEN acc
    ELSE LET colname == srcCols[k] IN
         IF colname = right_on
         THEN AutorenameColumnNames(srcCols, dstCols, right_on, k + 1, Append(acc, colname))
         ELSE IF colname \notin Range(dstCols)
         THEN AutorenameColumnNames(srcCols, dstCols, right_on, k + 1, Append(acc, colname))
         ELSE AutorenameColumnNames(srcCols, dstCols, right_on, k + 1,
                                    Append(acc, NewName(colname, dstCols, 1)))

\* Lines 188-191 without "- {left_on}".
OverrideAllShared(dstCols, srcCols, left_on) == Range(dstCols) \cap Range(srcCols)

\* Lines 188-191: the columns in both data sets, without left_on.
OverrideColumnsNames(dstCols, srcCols, left_on) ==
    (Range(dstCols) \cap Range(srcCols)) \ {left_on}

\* Lines 184-212.
Reconcile(dst, src, req) ==
    IF req.dup_column = "override"
    THEN [override |-> OverrideColumnsNames(dst.cols, src.cols, req.left_on),
          renamed |-> FALSE, autorename |-> <<>>]
    ELSE [override |-> {}, renamed |-> TRUE,
          autorename |-> AutorenameColumnNames(src.cols, dst.cols, req.right_on, 1, <<>>)]

\* Lines 160-182 without the uniqueness check of the source key (176-178).
ValidateSkipsSourceKey(st, src, req) ==
    IF req.how = "" \/ req.how \notin {"left", "right", "outer", "inner"}
    THEN "InvalidJoinType"
    ELSE IF st = {} THEN "Fault"
    ELSE LET dst == CHOOSE t \in st : TRUE IN
         IF req.left_on \notin Range(dst.cols) THEN "Fault"
         ELSE IF ~IsUniqueColumn(Column(dst, req.left_on)) THEN "KeyNotUnique"
         ELSE IF req.right_on \notin Range(src.cols) THEN "KeyNotFound"
         ELSE IF req.dup_column = "" \/ req.dup_column \notin {"override", "rename"}
         THEN "InvalidDupPolicy"
         ELSE "ok"

\* Lines 160-182, in the order of the code.  dst_df[left_on] is evaluated
\* with no check that dst_df is loaded or has the column: a TypeError or a
\* KeyError that nothing catches ("Fault").
Validate(st, src, req) ==
    IF req.how = "" \/ req.how \notin {"left", "right", "outer", "inner"}
    THEN "InvalidJoinType"
    ELSE IF st = {} THEN "Fault"
    ELSE LET dst == CHOOSE t \in st : TRUE IN
         IF req.left_on \notin Range(dst.cols) THEN "Fault"
         ELSE IF ~IsUniqueColumn(Column(dst, req.left_on)) THEN "KeyNotUnique"
         ELSE IF req.right_on \notin Range(src.cols) THEN "KeyNotFound"
         ELSE IF ~IsUniqueColumn(Column(src, req.right_on)) THEN "KeyNotUnique"
         ELSE IF req.dup_column = "" \/ req.dup_column \notin {"override", "rename"}
         THEN "InvalidDupPolicy"
         ELSE "ok"

(* --------------------- ops.perform_dataframe_upload_merge -------------- *)

\* The destination without the columns to drop.
DropColumns(dst, drop) ==
    LET keep == SelectSeq([i \in 1..Len(dst.cols) |-> i], LAMBDA i : dst.cols[i] \notin drop)
    IN [cols |-> [k \in 1..Len(keep) |-> dst.cols[keep[k]]],
        vals |-> [k \in 1..Len(keep) |-> dst.vals[keep[k]]]]

\* The source under its final names.
RenameColumns(src, plan) ==
    IF plan.renamed THEN [cols |-> plan.autorename, vals |-> src.vals] ELSE src

\* The source row whose key equals v, 0 when there is none.
MatchOf(skeys, v) ==
    IF \E j \in 1..Len(skeys) : skeys[j] = v
    THEN CHOOSE j \in 1..Len(skeys) : skeys[j] = v
    ELSE 0

\* The output rows as pairs <<destination row, source row>>, 0 for a missing
\* side: destination order first, then the source-only rows in source order.
JoinRows(dkeys, skeys, how) ==
    LET left == [i \in 1..Len(dkeys) |-> <<i, MatchOf(skeys, dkeys[i])>>]
        right == [j \in 1..Len(skeys) |-> <<0, j>>]
        keptLeft == SelectSeq(left, LAMBDA p : how \in {"left", "outer"} \/ p[2] # 0)
        keptRight == SelectSeq(right, LAMBDA p : how \in {"right", "outer"}
                                               /\ skeys[p[2]] \notin Range(dkeys))
    IN keptLeft \o keptRight

\* The single-key equi-join: the destination's columns (the key once), then
\* the source's columns except its key column.
Join(dst, src, how, left_on, right_on, srcKey) ==
    LET dkeys == Column(dst, left_on)
        skeys == src.vals[srcKey]
        rows == JoinRows(dkeys, skeys, how)
        others == SelectSeq([i \in 1..Len(src.cols) |-> i], LAMBDA i : i # srcKey)
        dcol(i) == [r \in 1..Len(rows) |->
                      IF rows[r][1] # 0 THEN dst.vals[i][rows[r][1]]
                      ELSE IF dst.cols[i] = left_on THEN skeys[rows[r][2]]
                      ELSE NaN]
        scol(i) == [r \in 1..Len(rows) |->
                      IF rows[r][2] # 0 THEN src.vals[i][rows[r][2]] ELSE NaN]
    IN [cols |-> dst.cols \o [k \in 1..Len(others) |-> src.cols[others[k]]],
        vals |-> [i \in 1..Len(dst.cols) |-> dcol(i)]
                 \o [k \in 1..Len(others) |-> scol(others[k])]]

\* The merge engine: applies the plan, joins, and persists the result only
\* when the join went through.  raised: the call threw; error: the message it
\* returned ("" for none).
PerformDataframeUploadMerge(st, dst, src, req, plan) ==
    LET d == DropColumns(dst, plan.override)
        s == RenameColumns(src, plan)
        srcKey == ColIndex(src, req.right_on)
    IN IF req.left_on # req.right_on /\ req.right_on \in Range(d.cols)
       THEN [raised |-> TRUE, error |-> "", store |-> st]
       ELSE LET out == Join(d, s, req.how, req.left_on, req.right_on, srcKey) IN
            IF Len(out.cols) = 0 \/ ~IsDistinct(s.cols) \/ ~IsDistinct(out.cols)
            THEN [raised |-> FALSE, error |-> "JoinExecutionError", store |-> st]
            ELSE [raised |-> FALSE, error |-> "",
                  store |-> {DetectDatetimeColumns(out)}]

\* Lines 225-240 with the uploaded frame stored before the merge is tried.
MergeStoresSourceFirst(st, dst, src, req, plan) ==
    LET m == PerformDataframeUploadMerge(st, dst, src, req, plan)
        failed == m.raised \/ m.error # ""
    IN [result |-> IF m.raised THEN "UnableToMerge"
                   ELSE IF m.error # "" THEN "MergeError"
                   ELSE "Created",
        store |-> IF failed THEN {DetectDatetimeColumns(src)} ELSE m.store,
        wrote |-> TRUE, engine |-> TRUE, planned |-> TRUE, plan |-> plan]

\* Lines 225-240: the call of the merge engine and what put makes of it.
Merge(st, dst, src, req, plan) ==
    LET m == PerformDataframeUploadMerge(st, dst, src, req, plan) IN
    [result |-> IF m.raised THEN "UnableToMerge"
                ELSE IF m.error # "" THEN "MergeError"
                ELSE "Created",
     store |-> m.store, wrote |-> ~m.raised /\ m.error = "",
     engine |-> TRUE, planned |-> TRUE, plan |-> plan]

\* MatrixMerge.put
MergePut(user, req, st, lk) ==
    LET go == GetObject(user, lk) IN
    IF go # "ok" THEN Outcome(go, st, FALSE)
    ELSE IF ~req.valid THEN Outcome("BadRequest", st, FALSE)
    ELSE IF ~DataFrameOk(req.src_df) THEN Outcome("UnableToLoad", st, FALSE)
    ELSE LET v == Validate(st, req.src_df, req) IN
         IF v # "ok" THEN Outcome(v, st, FALSE)
         ELSE LET dst == CHOOSE t \in st : TRUE IN
              Merge(st, dst, req.src_df, req, Reconcile(dst, req.src_df, req))

(* ------------------------------ requests ------------------------------- *)

\* request.data of a matrix request: valid is serializer.is_valid().
BlankMatrix == [valid |-> FALSE, data |-> EmptyTable]

MatrixRequests == {BlankMatrix} \cup {[valid |-> TRUE, data |-> p] : p \in Payloads}

BlankMerge ==
    [valid |-> FALSE, src_df |-> EmptyTable, how |-> "", left_on |-> "",
     right_on |-> "", dup_column |-> ""]

\* request.data of a merge request, dup_column aside.
MergeBodies ==
    {BlankMerge}
    \cup [valid : {TRUE}, src_df : Payloads, how : Hows, left_on : Names,
          right_on : Names, dup_column : {""}]

\* put reads dup_column only when every check before it has passed.
DupColumnRead(st, req) ==
    /\ req.valid
    /\ DataFrameOk(req.src_df)
    /\ Validate(st, req.src_df, req) = "InvalidDupPolicy"

\* What the table store holds after an upload.
StoreValues == {{}} \cup {{DetectDatetimeColumns(t)} : t \in Tables}

Idle == [op |-> "idle"]

\* The record of a handled request: the request, the state it met, what the
\* handler did, and (for a request get_object refuses) the responses the same
\* request gets under every other content of the table store.
Handled(op, user, req, o, alt) ==
    [op |-> op, user |-> user, req |-> req, pre |-> stored, preLocked |-> locked,
     result |-> o.result, wrote |-> o.wrote, engine |-> o.engine,
     planned |-> o.planned, plan |-> o.plan,
     alt |-> IF GetObject(user, locked) # "ok" THEN alt ELSE {o.result}]

(* ------------------------------- actions ------------------------------- *)
\* Requests are handled one at a time here: a handler runs from its first
\* line to its response.  A request that is refused before its body is read
\* is sent with one body, which stands for all.  PUT and merge requests are
\* explored against an empty store or an uploaded table, not against the
\* result of an earlier merge.

Init ==
    /\ stored = {}
    /\ locked = FALSE
    /\ last = Idle
    /\ reqs = <<>>

DoMatrixGet ==
    /\ last.op = "idle"
    /\ \E user \in Users :
         LET o == MatrixGet(user, stored, locked) IN
         /\ stored' = o.store
         /\ last' = Handled("matrix_get", user, BlankMatrix, o,
                            {MatrixGet(user, st, locked).result : st \in StoreValues})
    /\ UNCHANGED <<locked, reqs>>

DoMatrixPost ==
    /\ last.op = "idle"
    /\ \E user \in Users :
       \E req \in IF GetObject(user, locked) = "ok" /\ stored = {}
                  THEN MatrixRequests ELSE {BlankMatrix} :
         LET o == MatrixPost(user, req, stored, locked) IN
         /\ stored' = o.store
         /\ last' = Handled("matrix_post", user, req, o,
                            {MatrixPost(user, req, st, locked).result : st \in StoreValues})
    /\ UNCHANGED <<locked, reqs>>

DoMatrixPut ==
    /\ last.op = "idle"
    /\ stored \in StoreValues
    /\ \E user \in Users :
       \E req \in IF GetObject(user, locked) = "ok" THEN MatrixRequests ELSE {BlankMatrix} :
         LET o == MatrixPut(user, req, stored, locked) IN
         /\ stored' = o.store
         /\ last' = Handled("matrix_put", user, req, o,
                            {MatrixPut(user, req, st, locked).result : st \in StoreValues})
    /\ UNCHANGED <<locked, reqs>>

DoMatrixDelete ==
    /\ last.op = "idle"
    /\ \E user \in Users :
         LET o == MatrixDelete(user, stored, locked) IN
         /\ stored' = o.store
         /\ last' = Handled("matrix_delete", user, BlankMatrix, o,
                            {MatrixDelete(user, st, locked).result : st \in StoreValues})
    /\ UNCHANGED <<locked, reqs>>

DoMergeGet ==
    /\ last.op = "idle"
    /\ \E user \in Users :
         LET o == MergeGet(user, stored, locked) IN
         /\ stored' = o.store
         /\ last' = Handled("merge_get", user, BlankMerge, o,
                            {MergeGet(user, st, locked).result : st \in StoreValues})
    /\ UNCHANGED <<locked, reqs>>

DoMergePut ==
    /\ last.op = "idle"
    /\ stored \in StoreValues
    /\ \E user \in Users :
       \E body \in IF GetObject(user, locked) = "ok" THEN MergeBodies ELSE {BlankMerge} :
       \E dup \in IF DupColumnRead(stored, body) THEN DupColumns ELSE {""} :
         LET req == [body EXCEPT !.dup_column = dup]
             o == MergePut(user, req, stored, locked) IN
         /\ stored' = o.store
         /\ last' = Handled("merge_put", user, req, o,
                            {MergePut(user, req, st, locked).result : st \in StoreValues})
    /\ UNCHANGED <<locked, reqs>>

\* The response goes back to the caller.
Respond ==
    /\ last.op # "idle"
    /\ last' = Idle
    /\ UNCHANGED <<stored, locked, reqs>>

\* Another user's session takes or gives up the workflow.
SetLocked ==
    /\ last.op = "idle"
    /\ locked' = ~locked
    /\ UNCHANGED <<stored, last, reqs>>

Next ==
    \/ DoMatrixGet
    \/ DoMatrixPost
    \/ DoMatrixPut
    \/ DoMatrixDelete
    \/ DoMergeGet
    \/ DoMergePut
    \/ Respond
    \/ SetLocked

Spec == Init /\ [][Next]_vars

(* ---------------------- requests handled concurrently ------------------ *)
\* The same handlers, a step per read or write of shared state, for NumReqs
\* requests served at once.  Nothing in api.py takes a lock: get_object only
\* asks is_locked.

NumReqs == 2

Reqs == 1..NumReqs

ConcTables == {t \in Tables : t.cols = <<"a">> /\ NRows(t) = 1}

ConcMatrixRequests == {[valid |-> TRUE, data |-> t] : t \in ConcTables}

ConcMergeRequests ==
    [valid : {TRUE}, src_df : ConcTables, how : {"outer"}, left_on : {"a"},
     right_on : {"a"}, dup_column : {"override"}]

Waiting == [pc |-> "idle"]

InitConc ==
    /\ stored = {}
    /\ locked = FALSE
    /\ last = Idle
    /\ reqs = [r \in Reqs |-> Waiting]

\* A request arrives and its handler is entered.
Arrive(r) ==
    /\ reqs[r].pc = "idle"
    /\ \E user \in Users :
         \/ \E req \in ConcMatrixRequests, op \in {"matrix_post", "matrix_put"} :
              reqs' = [reqs EXCEPT ![r] =
                         [pc |-> IF op = "matrix_post" THEN "lookup" ELSE "get_object",
                          op |-> op, user |-> user, req |-> req, dst |-> {}]]
         \/ reqs' = [reqs EXCEPT ![r] =
                       [pc |-> "get_object", op |-> "matrix_delete", user |-> user,
                        req |-> BlankMatrix, dst |-> {}]]
         \/ \E req \in ConcMergeRequests :
              reqs' = [reqs EXCEPT ![r] =
                         [pc |-> "get_object", op |-> "merge_put", user |-> user,
                          req |-> req, dst |-> {}]]
    /\ UNCHANGED <<stored, locked, last>>

\* MatrixOps.post, line 85: the lookup before the permission check.
PostLookup(r) ==
    /\ reqs[r].pc = "lookup"
    /\ reqs' = [reqs EXCEPT ![r] =
                  IF stored # {} THEN Waiting ELSE [reqs[r] EXCEPT !.pc = "get_object"]]
    /\ UNCHANGED <<stored, locked, last>>

\* get_object: the ownership and lock check; a refused request ends here.
CheckObject(r) ==
    /\ reqs[r].pc = "get_object"
    /\ reqs' = [reqs EXCEPT ![r] =
                  IF GetObject(reqs[r].user, locked) # "ok" THEN Waiting
                  ELSE [reqs[r] EXCEPT !.pc = IF reqs[r].op = "merge_put"
                                              THEN "load" ELSE "work"]]
    /\ UNCHANGED <<stored, locked, last>>

\* MatrixMerge.put, line 146: dst_df = pandas_db.load_from_db(pk).
LoadDst(r) ==
    /\ reqs[r].pc = "load"
    /\ reqs' = [reqs EXCEPT ![r] = [reqs[r] EXCEPT !.pc = "work", !.dst = stored]]
    /\ UNCHANGED <<stored, locked, last>>

\* The rest of the handler: what it writes, it writes over whatever the
\* store holds by now; a merge works on the table it loaded.
Finish(r) ==
    /\ reqs[r].pc = "work"
    /\ LET q == reqs[r]
           o == IF q.op = "merge_put" THEN MergePut(q.user, q.req, q.dst, FALSE)
                ELSE IF q.op = "matrix_delete" THEN MatrixDelete(q.user, stored, FALSE)
                ELSE Override(q.user, q.req, stored, FALSE)
       IN stored' = IF o.wrote THEN o.store ELSE stored
    /\ reqs' = [reqs EXCEPT ![r] = Waiting]
    /\ UNCHANGED <<locked, last>>

\* Another user's session takes or gives up the workflow.
SetLockedConc ==
    /\ locked' = ~locked
    /\ UNCHANGED <<stored, last, reqs>>

NextConc ==
    \/ \E r \in Reqs : Arrive(r)
    \/ \E r \in Reqs : PostLookup(r)
    \/ \E r \in Reqs : CheckObject(r)
    \/ \E r \in Reqs : LoadDst(r)
    \/ \E r \in Reqs : Finish(r)
    \/ SetLockedConc

SpecConc == InitConc /\ [][NextConc]_vars

\* A request that passed get_object and has not finished.
InFlight(r) == reqs[r].pc \in {"load", "work"}

(* ------------------------------- claims -------------------------------- *)

ValidHows == {"left", "right", "outer", "inner"}

\* The handled request passed get_object.
Permitted == last.op # "idle" /\ GetObject(last.user, last.preLocked) = "ok"

\* A merge request that passed get_object, the serializer and the
\* translation of src_df to a data frame.
MergeRead ==
    /\ last.op = "merge_put"
    /\ Permitted
    /\ last.req.valid
    /\ DataFrameOk(last.req.src_df)

\* A merge request that passed validation and got its reconciliation plan.
MergePlanned == last.op = "merge_put" /\ last.planned

PreDst == CHOOSE t \in last.pre : TRUE

\* The destination's column names once columns_to_drop are gone.
FinalDstNames == Range(PreDst.cols) \ last.plan.override

\* The source's column names, in order, after the plan.
FinalSrcNames ==
    IF last.plan.renamed THEN last.plan.autorename ELSE last.req.src_df.cols

DupLeft ==
    /\ last.pre # {}
    /\ last.req.left_on \in Range(PreDst.cols)
    /\ ~IsUniqueColumn(Column(PreDst, last.req.left_on))

DupRight ==
    /\ last.req.right_on \in Range(last.req.src_df.cols)
    /\ ~IsUniqueColumn(Column(last.req.src_df, last.req.right_on))

\* C1: under the rename policy the final names given to the source columns
\* are pairwise distinct.
C1_RenamedNamesDistinct ==
    (MergePlanned /\ last.plan.renamed) => IsDistinct(last.plan.autorename)

\* C2: after reconciliation a name the destination and the source share is
\* the join key of both sides (left_on in the destination, right_on in the
\* source), under either policy.
C2_DisjointExceptKey ==
    MergePlanned =>
        \A n \in FinalDstNames \cap Range(FinalSrcNames) :
            n = last.req.left_on /\ n = last.req.right_on

\* C3: a merge request with a valid how whose left_on is no column of the
\* destination (or that meets no stored table) ends with KeyNotFound.
C3_MissingLeftKeyReported ==
    (/\ MergeRead
     /\ last.req.how \in ValidHows
     /\ (last.pre = {} \/ last.req.left_on \notin Range(PreDst.cols)))
    => last.result = "KeyNotFound"

\* C4: at most one request that passed get_object is in flight on the
\* workflow at a time.
C4_OneInFlight == Cardinality({r \in DOMAIN reqs : InFlight(r)}) <= 1

\* C5, as stated: a merge request whose destination or source key column
\* holds a duplicate value ends with KeyNotUnique and the join executor is
\* not invoked.  (Taken where left_on is a column of the destination, so
\* that the uncaught fault of C3 plays no part.)
C5_DuplicateIsKeyNotUnique ==
    (/\ MergeRead
     /\ last.pre # {}
     /\ last.req.left_on \in Range(PreDst.cols)
     /\ (DupLeft \/ DupRight))
    => (last.result = "KeyNotUnique" /\ ~last.engine)

\* C5, amended: such a request never reaches the join executor and leaves
\* the stored table alone; it ends with KeyNotUnique when how is valid and
\* left_on is a column of the destination, with InvalidJoinType when how is
\* not valid, and with the uncaught fault when how is valid and left_on is no
\* column of the destination.
C5_DuplicateNeverJoined ==
    (MergeRead /\ (DupLeft \/ DupRight))
    => /\ ~last.engine
       /\ ~last.wrote
       /\ stored = last.pre
       /\ last.result =
            IF last.req.how \notin ValidHows THEN "InvalidJoinType"
            ELSE IF last.pre = {} \/ last.req.left_on \notin Range(PreDst.cols)
            THEN "Fault"
            ELSE "KeyNotUnique"

C5_Witness ==
    /\ MergeRead
    /\ ~DupLeft
    /\ DupRight
    /\ last.result = "KeyNotUnique"

\* C6: a POST that meets a stored table is rejected with AlreadyExists and
\* leaves it as it was; a POST succeeds only when nothing is stored; a PUT
\* by a permitted user with a well-formed table is answered and stores that
\* table whatever the store held.
C6_CreateOnlyWhenAbsent ==
    /\ (last.op = "matrix_post" /\ last.pre # {})
         => (last.result = "AlreadyExists" /\ stored = last.pre /\ ~last.wrote)
    /\ (last.op = "matrix_post" /\ last.result = "Created") => last.pre = {}
    /\ (last.op = "matrix_put" /\ Permitted /\ last.req.valid /\ DataFrameOk(last.req.data))
         => (last.result = "Created" /\ stored = {DetectDatetimeColumns(last.req.data)})

C6_Witness ==
    /\ last.op = "matrix_post"
    /\ last.pre # {}
    /\ Permitted
    /\ last.req = BlankMatrix
    /\ last.result = "AlreadyExists"

\* C7: the plan of a validated merge never drops the destination's left_on
\* and never renames the source's right_on, under either policy.
C7_KeyKept ==
    MergePlanned =>
        /\ last.req.left_on \notin last.plan.override
        /\ IF last.req.dup_column = "rename"
           THEN /\ last.plan.renamed
                /\ Len(last.plan.autorename) = Len(last.req.src_df.cols)
                /\ last.plan.autorename[ColIndex(last.req.src_df, last.req.right_on)]
                     = last.req.right_on
           ELSE ~last.plan.renamed

\* The key names collide with the other table's columns and the plan still
\* changes something.
C7_Witness ==
    /\ MergePlanned
    /\ last.req.left_on \in Range(last.req.src_df.cols)
    /\ last.req.right_on \in Range(PreDst.cols)
    /\ \/ last.plan.override # {}
       \/ last.plan.renamed /\ last.plan.autorename # last.req.src_df.cols

\* C8: a mutating request on a workflow locked by another user is rejected
\* with WorkflowLocked; neither the merge engine nor the store's write or
\* detach is invoked and the stored table is unchanged.
C8_LockedIsRejected ==
    (/\ last.op \in {"matrix_post", "matrix_put", "matrix_delete", "merge_put"}
     /\ OwnershipOk(last.user)
     /\ last.preLocked)
    => /\ last.result = "WorkflowLocked"
       /\ ~last.engine
       /\ ~last.wrote
       /\ stored = last.pre

\* C9: a merge PUT that ends in an error leaves the stored table as it was;
\* the stored table changes only when the response is a success.
C9_ErrorLeavesStore ==
    last.op = "merge_put" =>
        /\ last.result # "Created" => (stored = last.pre /\ ~last.wrote)
        /\ stored # last.pre => last.result = "Created"

\* The merge engine was invoked and failed.
C9_Witness ==
    /\ last.op = "merge_put"
    /\ last.engine
    /\ last.result \in {"MergeError", "UnableToMerge"}
    /\ last.pre # {}

\* C10: the response to a request that get_object refuses (ownership or
\* lock) is the same whatever the table store holds.
C10_RefusalIndependentOfStore ==
    (last.op # "idle" /\ ~Permitted) => last.alt = {last.result}

====
